---- MODULE Spec2Model ----
(***************************************************************************)
(* Kapowarr: naming templates, the settings store that holds them, and the *)
(* mass rename of the files of a volume (backend/naming.py,                *)
(* backend/settings.py).                                                   *)
(*                                                                         *)
(* Strings are sequences of tokens.  A token is a TLA+ string that stands  *)
(* for a run of characters that the code never splits: a word, the path    *)
(* separator "/", one back slash "\\", an extension ".cbz", a             *)
(* disambiguation suffix " (1)", a placeholder "{year}".                   *)
(***************************************************************************)
EXTENDS Integers, Sequences, FiniteSets, TLC

VARIABLES
    config,        \* table config: key -> value
    cache,         \* Settings.cache, the class attribute shared by all instances
    lastCall,      \* the settings call that ran last and its arguments
    lastError,     \* what that call raised ("none" when it returned)
    volumes,       \* table volumes: id -> row
    issues,        \* table issues: id -> row
    files,         \* table files: id -> filepath
    issues_files,  \* table issues_files: set of <<file_id, issue_id>>
    fs,            \* the filesystem: path of a regular file -> what it holds
    pc,            \* position of the running mass_rename
    scope,         \* the (volume_id, issue_id) of the running or last call
    renames,       \* mass_rename: the plan it works through
    idx,           \* mass_rename: index of the entry the loop is at
    start,         \* files and fs as they were when the running call began
    result         \* what the last call of the rename interface returned or raised

settingsVars == <<config, cache, lastCall, lastError>>
libraryVars == <<volumes, issues, files, issues_files, fs>>
renameVars == <<pc, scope, renames, idx, start, result>>
vars == <<config, cache, lastCall, lastError, volumes, issues, files,
          issues_files, fs, pc, scope, renames, idx, start, result>>

-----------------------------------------------------------------------------
(* Strings                                                                 *)

Str(t) == <<t>>

\* None, as opposed to the empty string <<>>
None == <<"<None>">>

\* Python truthiness of an optional string: None and "" are falsy
Truthy(s) == s # None /\ s # <<>>

\* x or y
Or(x, y) == IF Truthy(x) THEN x ELSE y

RECURSIVE Concat(_)
\* the concatenation of a sequence of strings
Concat(ss) == IF ss = <<>> THEN <<>> ELSE Head(ss) \o Concat(Tail(ss))

\* s.startswith(p)
StartsWith(s, p) == Len(s) >= Len(p) /\ SubSeq(s, 1, Len(p)) = p

\* sub in s, for a one-token sub
Contains(s, t) == \E i \in 1..Len(s) : s[i] = t

\* sub in s, for a two-token sub
Contains2(s, t1, t2) == \E i \in 1..(Len(s) - 1) : s[i] = t1 /\ s[i + 1] = t2

-----------------------------------------------------------------------------
(* os.path                                                                 *)

sep == "/"
BackSlash == "\\"
Extensions == {".cbz", ".cbr"}

\* position of the last separator of p at or before i, 0 when there is none
RECURSIVE LastSepFrom(_, _)
LastSepFrom(p, i) ==
    IF i = 0 THEN 0 ELSE IF p[i] = sep THEN i ELSE LastSepFrom(p, i - 1)

\* position of the first separator of p at or after i, 0 when there is none
RECURSIVE FirstSepFrom(_, _)
FirstSepFrom(p, i) ==
    IF i > Len(p) THEN 0 ELSE IF p[i] = sep THEN i ELSE FirstSepFrom(p, i + 1)

LastSep(p) == LastSepFrom(p, Len(p))

\* posixpath.basename
basename(p) == SubSeq(p, LastSep(p) + 1, Len(p))

\* posixpath.dirname: the head without its trailing separator, unless the
\* head is the root
dirname(p) == IF LastSep(p) <= 1 THEN SubSeq(p, 1, LastSep(p))
              ELSE SubSeq(p, 1, LastSep(p) - 1)

\* splitext(p): <<root, ext>>; the extension starts at the last dot of the
\* last component, and a dot that starts the component does not count
splitext(p) ==
    IF Len(p) - LastSep(p) > 1 /\ p[Len(p)] \in Extensions
    THEN <<SubSeq(p, 1, Len(p) - 1), <<p[Len(p)]>>>>
    ELSE <<p, <<>>>>

\* posixpath.join(a, b)
join(a, b) ==
    IF b # <<>> /\ b[1] = sep THEN b
    ELSE IF a = <<>> \/ a[Len(a)] = sep THEN a \o b
    ELSE a \o <<sep>> \o b

\* isfile(p)
isfile(p) == p \in DOMAIN fs

\* the paths below folder, relative to it
Below(folder) ==
    {SubSeq(p, Len(folder) + 2, Len(p)) :
        p \in {q \in DOMAIN fs : Len(q) > Len(folder) + 1
                                 /\ SubSeq(q, 1, Len(folder)) = folder
                                 /\ q[Len(folder) + 1] = sep}}

\* first component of a relative path
FirstComponent(r) ==
    IF FirstSepFrom(r, 1) = 0 THEN r ELSE SubSeq(r, 1, FirstSepFrom(r, 1) - 1)

\* listdir(folder): the names of the entries of folder, files and folders
listdir(folder) == {FirstComponent(r) : r \in Below(folder)}

\* isdir(folder): a folder exists as long as something lies in it
isdir(folder) == Below(folder) # {}

-----------------------------------------------------------------------------
(* Exceptions                                                              *)

NoError == [type |-> "none", args |-> <<>>]
Raise(type, args) == [type |-> type, args |-> args]
Raised(e) == e.type # "none"

-----------------------------------------------------------------------------
(* backend/naming.py: formatting keys and check_format                     *)

formatting_keys ==
    <<"series_name", "clean_series_name", "volume_number", "comicvine_id",
      "year", "publisher">>

issue_formatting_keys ==
    formatting_keys \o
    <<"issue_comicvine_id", "issue_number", "issue_title", "issue_release_date">>

Range(s) == {s[i] : i \in 1..Len(s)}

\* the replacement fields a format string can hold: one per formatting key,
\* and "{title}", which is no formatting key
FieldName ==
    [t \in {"{series_name}", "{clean_series_name}", "{volume_number}",
            "{comicvine_id}", "{year}", "{publisher}", "{issue_comicvine_id}",
            "{issue_number}", "{issue_title}", "{issue_release_date}",
            "{title}"} |->
        CASE t = "{series_name}" -> "series_name"
          [] t = "{clean_series_name}" -> "clean_series_name"
          [] t = "{volume_number}" -> "volume_number"
          [] t = "{comicvine_id}" -> "comicvine_id"
          [] t = "{year}" -> "year"
          [] t = "{publisher}" -> "publisher"
          [] t = "{issue_comicvine_id}" -> "issue_comicvine_id"
          [] t = "{issue_number}" -> "issue_number"
          [] t = "{issue_title}" -> "issue_title"
          [] t = "{issue_release_date}" -> "issue_release_date"
          [] t = "{title}" -> "title"]

IsField(t) == t \in DOMAIN FieldName

\* the field names Formatter().parse(format) yields, in order
ParseFields(format) ==
    LET fields == SelectSeq(format, IsField)
    IN  [i \in 1..Len(fields) |-> FieldName[fields[i]]]

\* the first element of seq that is not in allowed, <<>> when all are
RECURSIVE FirstNotIn(_, _)
FirstNotIn(seq, allowed) ==
    IF seq = <<>> THEN <<>>
    ELSE IF Head(seq) \notin allowed THEN <<Head(seq)>>
    ELSE FirstNotIn(Tail(seq), allowed)

\* '{' + format_key + '}'
Braced(key) == CHOOSE t \in DOMAIN FieldName : FieldName[t] = key

\* r'/' in format or r'\\' in format: the raw literal r'\\' is two back slashes
HasPathSeperator(format) ==
    Contains(format, sep) \/ Contains2(format, BackSlash, BackSlash)

\* check_format with the keys of an issue allowed in both file formats
check_format_IssueKeysForTpb(format, type) ==
    LET keys == ParseFields(format)
        naming_keys == IF type \in {"file_naming", "file_naming_tpb"}
                       THEN Range(issue_formatting_keys)
                       ELSE Range(formatting_keys)
        bad == FirstNotIn(keys, naming_keys)
    IN  IF type \in {"file_naming", "file_naming_tpb"} /\ HasPathSeperator(format)
        THEN Raise("InvalidSettingValue", <<Str("Path seperator found")>>)
        ELSE IF bad # <<>>
        THEN Raise("InvalidSettingValue", <<Str(Braced(bad[1]))>>)
        ELSE NoError

\* check_format(format, type): the exception it raises, NoError when it returns
check_format(format, type) ==
    LET keys == ParseFields(format)
        naming_keys == IF type = "file_naming" THEN Range(issue_formatting_keys)
                       ELSE Range(formatting_keys)
        bad == FirstNotIn(keys, naming_keys)
    IN  IF type \in {"file_naming", "file_naming_tpb"} /\ HasPathSeperator(format)
        THEN Raise("InvalidSettingValue", <<Str("Path seperator found")>>)
        ELSE IF bad # <<>>
        THEN Raise("InvalidSettingValue", <<Str(Braced(bad[1]))>>)
        ELSE NoError

-----------------------------------------------------------------------------
(* backend/settings.py                                                     *)

default_settings ==
    [port |-> Str("5656"),
     volume_folder_naming |->
        <<"{series_name}", sep, "Volume ", "{volume_number}", " (", "{year}", ")">>,
     file_naming |->
        <<"{series_name}", " (", "{year}", ") Volume ", "{volume_number}",
          " Issue ", "{issue_number}">>,
     file_naming_tpb |->
        <<"{series_name}", " (", "{year}", ") Volume ", "{volume_number}", " TPB">>,
     log_level |-> Str("info")]

NamingSettings == {"volume_folder_naming", "file_naming", "file_naming_tpb"}

\* value.isdigit()
isdigit(value) == value \in {Str("5656"), Str("8080")}

\* the rows of config after UPDATE config SET value = ? WHERE key = ?
UpdateConfig(table, value, key) ==
    [k \in DOMAIN table |-> IF k = key THEN value ELSE table[k]]

\* cursor.executemany over setting_changes, a sequence of <<value, key>>
RECURSIVE ExecuteMany(_, _)
ExecuteMany(table, setting_changes) ==
    IF setting_changes = <<>> THEN table
    ELSE ExecuteMany(UpdateConfig(table, Head(setting_changes)[1],
                                  Head(setting_changes)[2]),
                     Tail(setting_changes))

\* self.cache.update(settings)
CacheUpdate(c, table) ==
    [k \in DOMAIN c \cup DOMAIN table |-> IF k \in DOMAIN table THEN table[k] ELSE c[k]]

\* get_settings that goes to the table only when the cache is empty
CacheAfterGet_OnlyWhenEmpty(c, table, use_cache) ==
    IF DOMAIN c = {} THEN CacheUpdate(c, table) ELSE c

\* the cache after get_settings(use_cache) against the rows table
CacheAfterGet(c, table, use_cache) ==
    IF ~use_cache \/ DOMAIN c = {} THEN CacheUpdate(c, table) ELSE c

\* what the validation of one key of set_settings raises
ValidateSetting(key, value) ==
    IF key = "port" /\ ~isdigit(value)
    THEN Raise("InvalidSettingValue", <<Str(key), value>>)
    ELSE IF key = "api_key"
    THEN Raise("InvalidSettingModification", <<Str(key), Str("POST /settings/api_key")>>)
    ELSE IF key \in NamingSettings
    THEN check_format(value, key)
    ELSE IF key = "log_level" /\ value \notin {Str("info"), Str("debug")}
    THEN Raise("InvalidSettingValue", <<Str(key), value>>)
    ELSE IF key \notin DOMAIN default_settings
    THEN Raise("InvalidSettingKey", <<Str(key)>>)
    ELSE NoError

\* the loop of set_settings over settings, a sequence of <<key, value>>:
\* the exception that ends it and the setting_changes collected until then
RECURSIVE ValidateSettings(_, _)
ValidateSettings(settings, setting_changes) ==
    IF settings = <<>> THEN [error |-> NoError, changes |-> setting_changes]
    ELSE LET key == Head(settings)[1]
             value == Head(settings)[2]
             e == ValidateSetting(key, value)
         IN  IF Raised(e) THEN [error |-> e, changes |-> setting_changes]
             ELSE ValidateSettings(Tail(settings),
                                   Append(setting_changes, <<value, key>>))

\* set_settings that writes each setting as soon as it has validated it
ConfigAfterSet_WriteAsYouGo(table, settings) ==
    ExecuteMany(table, ValidateSettings(settings, <<>>).changes)

\* the rows of config after set_settings(settings)
ConfigAfterSet(table, settings) ==
    LET v == ValidateSettings(settings, <<>>)
    IN  IF Raised(v.error) THEN table ELSE ExecuteMany(table, v.changes)

\* Settings.get_settings(use_cache)
get_settings(use_cache) ==
    /\ cache' = CacheAfterGet(cache, config, use_cache)
    /\ lastCall' = [op |-> "get_settings", settings |-> <<>>]
    /\ lastError' = NoError
    /\ UNCHANGED config

\* Settings.set_settings(settings)
set_settings(settings) ==
    LET v == ValidateSettings(settings, <<>>)
    IN  /\ config' = ConfigAfterSet(config, settings)
        /\ cache' = IF Raised(v.error) THEN cache
                    ELSE CacheAfterGet(cache, config', v.changes = <<>>)
        /\ lastCall' = [op |-> "set_settings", settings |-> settings]
        /\ lastError' = v.error

\* Settings.reset_setting(key)
reset_setting(key) ==
    /\ lastCall' = [op |-> "reset_setting", settings |-> <<<<key, <<>>>>>>]
    /\ IF key \notin DOMAIN default_settings
       THEN /\ lastError' = Raise("InvalidSettingKey", <<Str(key)>>)
            /\ UNCHANGED <<config, cache>>
       ELSE /\ lastError' = NoError
            /\ config' = UpdateConfig(config, default_settings[key], key)
            /\ cache' = CacheAfterGet(cache, config', FALSE)

\* Settings.generate_api_key(): api_key is one of the keys urandom can give
generate_api_key(api_key) ==
    /\ lastCall' = [op |-> "generate_api_key", settings |-> <<>>]
    /\ lastError' = NoError
    /\ config' = UpdateConfig(config, api_key, "api_key")
    /\ cache' = CacheAfterGet(cache, config', FALSE)

-----------------------------------------------------------------------------
(* backend/naming.py: name generation                                      *)

\* issue_id=None
NoIssue == 0

\* table root_folders: id -> folder
root_folders == [i \in {1} |-> Str("/comics")]

\* the dict built by _get_formatting_data(volume_id, issue_id), or what it raises
get_formatting_data(volume_id, issue_id) ==
    IF volume_id \notin DOMAIN volumes
    THEN [error |-> Raise("VolumeNotFound", <<>>), data |-> <<>>]
    ELSE IF volumes[volume_id].title = None
    THEN [error |-> Raise("AttributeError", <<Str("startswith")>>), data |-> <<>>]
    ELSE IF issue_id # NoIssue /\ issue_id \notin DOMAIN issues
    THEN [error |-> Raise("IssueNotFound", <<>>), data |-> <<>>]
    ELSE
    LET volume_data == volumes[volume_id]
        clean_title ==
            IF StartsWith(volume_data.title, <<"The ">>)
            THEN volume_data.title \o <<", The">>
            ELSE IF StartsWith(volume_data.title, <<"A ">>)
            THEN volume_data.title \o <<", A">>
            ELSE Or(volume_data.title, Str("Unknown"))
        formatting_data ==
            [series_name |-> Or(volume_data.title, Str("Unknown")),
             clean_series_name |-> clean_title,
             volume_number |-> Or(volume_data.volume_number, Str("Unknown")),
             comicvine_id |-> Or(volume_data.comicvine_id, Str("Unknown")),
             year |-> Or(volume_data.year, Str("Unknown")),
             publisher |-> Or(volume_data.publisher, Str("Unknown"))]
        issue_data == issues[issue_id]
        issue_formatting_data ==
            [issue_comicvine_id |-> Or(issue_data.comicvine_id, Str("Unknown")),
             issue_number |-> Or(issue_data.issue_number, Str("Unknown")),
             issue_title |-> Or(issue_data.title, Str("Unknown")),
             issue_release_date |-> Or(issue_data.date, Str("Unknown"))]
    IN  [error |-> NoError,
         data |-> IF issue_id # NoIssue
                  THEN issue_formatting_data @@ formatting_data
                  ELSE formatting_data]

\* format.format(**formatting_data): every replacement field gives way to its
\* value; a field the data lacks is a KeyError
Format(format, formatting_data) ==
    LET missing == FirstNotIn(ParseFields(format), DOMAIN formatting_data)
    IN  IF missing # <<>>
        THEN [error |-> Raise("KeyError", <<Str(missing[1])>>), name |-> <<>>]
        ELSE [error |-> NoError,
              name |-> Concat([i \in 1..Len(format) |->
                          IF IsField(format[i])
                          THEN formatting_data[FieldName[format[i]]]
                          ELSE <<format[i]>>])]

\* Settings().get_settings()[key]
Setting(key) == CacheAfterGet(cache, config, TRUE)[key]

\* a name: _get_formatting_data, then the format of the setting key applied
GenerateName(volume_id, issue_id, key) ==
    LET d == get_formatting_data(volume_id, issue_id)
    IN  IF Raised(d.error) THEN [error |-> d.error, name |-> <<>>]
        ELSE Format(Setting(key), d.data)

generate_volume_folder_name(volume_id) ==
    GenerateName(volume_id, NoIssue, "volume_folder_naming")

generate_tpb_name(volume_id) ==
    GenerateName(volume_id, NoIssue, "file_naming_tpb")

generate_issue_name(volume_id, issue_id) ==
    GenerateName(volume_id, issue_id, "file_naming")

\* the elements of the set ids as a sequence ascending by key(id), then by id
RECURSIVE SortedBy(_, _)
SortedBy(ids, key) ==
    IF ids = {} THEN <<>>
    ELSE LET least == CHOOSE x \in ids : \A y \in ids :
                          \/ key[x] < key[y]
                          \/ key[x] = key[y] /\ x <= y
         IN  <<least>> \o SortedBy(ids \ {least}, key)

\* ORDER BY the id itself
Ident == [x \in Int |-> x]

\* ORDER BY calculated_issue_number
CalcNumber == [i \in DOMAIN issues |-> issues[i].calculated_issue_number]

\* f'{value}'
FString(value) == IF value = None THEN Str("None") ELSE value

\* the name of a file that covers the issues from the first number to the last
generate_issue_range_name(volume_id, calculated_issue_number_start, calculated_issue_number_end) ==
    LET first == {i \in DOMAIN issues :
                    /\ issues[i].volume_id = volume_id
                    /\ CalcNumber[i] = calculated_issue_number_start}
        rows == SortedBy({i \in DOMAIN issues :
                    /\ issues[i].volume_id = volume_id
                    /\ CalcNumber[i] \in {calculated_issue_number_start,
                                          calculated_issue_number_end}},
                         CalcNumber)
    IN  IF first = {}
        THEN [error |-> Raise("TypeError", <<Str("fetchone")>>), name |-> <<>>]
        ELSE
        LET issue_id == SortedBy(first, Ident)[1]
            d == get_formatting_data(volume_id, issue_id)
        IN  IF Raised(d.error) THEN [error |-> d.error, name |-> <<>>]
            ELSE IF Len(rows) # 2
            THEN [error |-> Raise("ValueError", <<Str("unpack")>>), name |-> <<>>]
            ELSE Format(Setting("file_naming"),
                        [issue_number |->
                            FString(issues[rows[1]].issue_number) \o <<"-">>
                            \o FString(issues[rows[2]].issue_number)] @@ d.data)

-----------------------------------------------------------------------------
(* backend/naming.py: renaming                                             *)

\* f" ({i})"
Suffix == <<" (1)", " (2)", " (3)", " (4)", " (5)", " (6)", " (7)", " (8)">>

\* the strings that match r' \(\d+\)': the suffixes and " (0)"
SuffixLike == Range(Suffix) \cup {" (0)"}

\* match(escape(suggested_name) + r'( \(\d+\))?$', r)
MatchesName(suggested_name, r) ==
    \/ r = suggested_name
    \/ /\ Len(r) = Len(suggested_name) + 1
       /\ SubSeq(r, 1, Len(suggested_name)) = suggested_name
       /\ r[Len(r)] \in SuffixLike

\* the indexing that numbers by how many names are taken
same_name_indexing_CountsNames(suggested_name, current_name, folder, planned_names) ==
    LET planned == {splitext(basename(planned_names[i].after))[1] :
                        i \in 1..Len(planned_names)}
        basename_file == splitext(basename(current_name))[1]
        in_folder == IF isdir(folder)
                     THEN {f \in {splitext(e)[1] : e \in listdir(folder)} :
                              f # basename_file /\ MatchesName(suggested_name, f)}
                     ELSE {}
        same_names == {r \in planned : MatchesName(suggested_name, r)} \cup in_folder
    IN  IF suggested_name \notin same_names THEN suggested_name
        ELSE suggested_name \o <<Suffix[Cardinality(same_names)]>>

\* the indexing that counts the file itself among the files of the folder
same_name_indexing_CountsItself(suggested_name, current_name, folder, planned_names) ==
    LET planned == {splitext(basename(planned_names[i].after))[1] :
                        i \in 1..Len(planned_names)}
        in_folder == IF isdir(folder)
                     THEN {f \in {splitext(e)[1] : e \in listdir(folder)} :
                              MatchesName(suggested_name, f)}
                     ELSE {}
        same_names == {r \in planned : MatchesName(suggested_name, r)} \cup in_folder
        i == CHOOSE n \in 1..(Cardinality(same_names) + 1) :
                /\ suggested_name \o <<Suffix[n]>> \notin same_names
                /\ \A m \in 1..(n - 1) : suggested_name \o <<Suffix[m]>> \in same_names
    IN  IF suggested_name \notin same_names THEN suggested_name
        ELSE suggested_name \o <<Suffix[i]>>

\* same_name_indexing(suggested_name, current_name, folder, planned_names)
same_name_indexing(suggested_name, current_name, folder, planned_names) ==
    LET planned == {splitext(basename(planned_names[i].after))[1] :
                        i \in 1..Len(planned_names)}
        basename_file == splitext(basename(current_name))[1]
        in_folder == IF isdir(folder)
                     THEN {f \in {splitext(e)[1] : e \in listdir(folder)} :
                              f # basename_file /\ MatchesName(suggested_name, f)}
                     ELSE {}
        same_names == {r \in planned : MatchesName(suggested_name, r)} \cup in_folder
        i == CHOOSE n \in 1..(Cardinality(same_names) + 1) :
                /\ suggested_name \o <<Suffix[n]>> \notin same_names
                /\ \A m \in 1..(n - 1) : suggested_name \o <<Suffix[m]>> \in same_names
    IN  IF suggested_name \notin same_names THEN suggested_name
        ELSE suggested_name \o <<Suffix[i]>>

\* the files a call looks at, ascending by id: those linked to an issue of
\* the volume, or those linked to issue_id
FileInfos(volume_id, issue_id) ==
    SortedBy({f \in DOMAIN files :
                \E l \in issues_files :
                    /\ l[1] = f
                    /\ IF issue_id = NoIssue
                       THEN l[2] \in DOMAIN issues /\ issues[l[2]].volume_id = volume_id
                       ELSE l[2] = issue_id},
             Ident)

\* SELECT COUNT(*) FROM issues WHERE volume_id = ?
IssuesInVolume(volume_id) ==
    Cardinality({i \in DOMAIN issues : issues[i].volume_id = volume_id})

\* the issues a file covers, ascending by calculated_issue_number
IssuesOfFile(file_id) ==
    SortedBy({i \in DOMAIN issues : <<file_id, i>> \in issues_files}, CalcNumber)

\* the classification with the count of the volume compared the wrong way
SuggestedName_TpbWhenFewer(volume_id, file_id) ==
    LET covered == IssuesOfFile(file_id)
    IN  IF covered = <<>>
        THEN [error |-> Raise("IndexError", <<Str("issues")>>), name |-> <<>>]
        ELSE IF Len(covered) > 1
        THEN IF Len(covered) # IssuesInVolume(volume_id)
             THEN generate_tpb_name(volume_id)
             ELSE generate_issue_range_name(volume_id, CalcNumber[covered[1]],
                                            CalcNumber[covered[Len(covered)]])
        ELSE generate_issue_name(volume_id, covered[1])

\* the name the file gets before the indexing
SuggestedName(volume_id, file_id) ==
    LET covered == IssuesOfFile(file_id)
    IN  IF covered = <<>>
        THEN [error |-> Raise("IndexError", <<Str("issues")>>), name |-> <<>>]
        ELSE IF Len(covered) > 1
        THEN IF Len(covered) = IssuesInVolume(volume_id)
             THEN generate_tpb_name(volume_id)
             ELSE generate_issue_range_name(volume_id, CalcNumber[covered[1]],
                                            CalcNumber[covered[Len(covered)]])
        ELSE generate_issue_name(volume_id, covered[1])

\* the loop of preview_mass_rename over file_infos
RECURSIVE PlanRenames(_, _, _, _)
PlanRenames(volume_id, file_infos, folder, planned) ==
    IF file_infos = <<>> THEN [error |-> NoError, renames |-> planned]
    ELSE
    LET filepath == files[Head(file_infos)]
        g == SuggestedName(volume_id, Head(file_infos))
        suggested_name ==
            join(folder, same_name_indexing(g.name, filepath, folder, planned)
                         \o splitext(filepath)[2])
    IN  IF ~isfile(filepath)
        THEN PlanRenames(volume_id, Tail(file_infos), folder, planned)
        ELSE IF Raised(g.error) THEN [error |-> g.error, renames |-> <<>>]
        ELSE PlanRenames(volume_id, Tail(file_infos), folder,
                         IF filepath # suggested_name
                         THEN Append(planned, [before |-> filepath,
                                               after |-> suggested_name])
                         ELSE planned)

\* preview_mass_rename(volume_id, issue_id): the plan, or what it raises
preview_mass_rename(volume_id, issue_id) ==
    LET file_infos == FileInfos(volume_id, issue_id)
        g == generate_volume_folder_name(volume_id)
    IN  IF issue_id = NoIssue
        THEN IF volume_id \notin DOMAIN volumes
                \/ volumes[volume_id].root_folder \notin DOMAIN root_folders
             THEN [error |-> Raise("TypeError", <<Str("fetchone")>>), renames |-> <<>>]
             ELSE IF Raised(g.error) THEN [error |-> g.error, renames |-> <<>>]
             ELSE PlanRenames(volume_id, file_infos,
                              join(root_folders[volumes[volume_id].root_folder], g.name),
                              <<>>)
        ELSE IF file_infos = <<>>
             THEN [error |-> Raise("IndexError", <<Str("file_infos")>>), renames |-> <<>>]
             ELSE PlanRenames(volume_id, file_infos,
                              dirname(files[file_infos[1]]), <<>>)

\* whether a call that ended with error got as far as Settings().get_settings()
ReadsSettings(error, volume_id, issue_id) ==
    /\ error.type \in {"none", "KeyError", "ValueError"}
    /\ \/ issue_id = NoIssue
       \/ \E f \in Range(FileInfos(volume_id, issue_id)) : isfile(files[f])

\* backend.files.rename_file(before, after): the filesystem after the move
rename_file(before, after) ==
    [p \in (DOMAIN fs \ {before}) \cup {after} |->
        IF p = after THEN fs[before] ELSE fs[p]]

\* UPDATE files SET filepath = ? WHERE filepath = ?
UpdateFilepath(table, after, before) ==
    [f \in DOMAIN table |-> IF table[f] = before THEN after ELSE table[f]]

\* UPDATE volumes SET folder = ? WHERE id = ?
UpdateFolder(table, folder, volume_id) ==
    [v \in DOMAIN table |->
        IF v = volume_id THEN [table[v] EXCEPT !.folder = folder] ELSE table[v]]

\* number of separators of a path
Depth(p) == Len(SelectSeq(p, LAMBDA t : t = sep))

\* the model follows a mass_rename only when no file ends up deeper than this
MaxDepth == 5

NoResult == [op |-> "none", error |-> NoError, renames |-> <<>>]
NoStart == [files |-> <<>>, fs |-> <<>>, volumes |-> <<>>]

\* the rename interface takes a call when no mass_rename is under way
Ready == pc \in {"idle", "done", "failed", "raised"}

\* a preview that sets the folder of the volume as mass_rename does
PreviewMassRename_WritesFolder(volume_id, issue_id) ==
    LET p == preview_mass_rename(volume_id, issue_id)
    IN  /\ Ready
        /\ pc' = "idle"
        /\ scope' = <<volume_id, issue_id>>
        /\ result' = [op |-> "preview_mass_rename"] @@ p
        /\ cache' = IF ReadsSettings(p.error, volume_id, issue_id)
                    THEN CacheAfterGet(cache, config, TRUE) ELSE cache
        /\ renames' = <<>>
        /\ idx' = 0
        /\ start' = NoStart
        /\ volumes' = IF ~Raised(p.error) /\ issue_id = NoIssue /\ p.renames # <<>>
                      THEN UpdateFolder(volumes, dirname(p.renames[1].after), volume_id)
                      ELSE volumes
        /\ UNCHANGED <<config, lastCall, lastError, issues, files, issues_files, fs>>

\* a call of preview_mass_rename(volume_id, issue_id)
PreviewMassRename(volume_id, issue_id) ==
    /\ Ready
    /\ pc' = "idle"
    /\ scope' = <<volume_id, issue_id>>
    /\ result' = [op |-> "preview_mass_rename"]
                 @@ preview_mass_rename(volume_id, issue_id)
    /\ cache' = IF ReadsSettings(result'.error, volume_id, issue_id)
                THEN CacheAfterGet(cache, config, TRUE) ELSE cache
    /\ renames' = <<>>
    /\ idx' = 0
    /\ start' = NoStart
    /\ UNCHANGED <<config, lastCall, lastError, libraryVars>>

\* mass_rename that sets the folder of the volume whenever the plan has an
\* entry, with or without an issue_id
MassRename_FolderForAnyPlan(volume_id, issue_id) ==
    LET p == preview_mass_rename(volume_id, issue_id)
    IN  /\ Ready
        /\ \A i \in 1..Len(p.renames) : Depth(p.renames[i].after) <= MaxDepth
        /\ scope' = <<volume_id, issue_id>>
        /\ cache' = IF ReadsSettings(p.error, volume_id, issue_id)
                    THEN CacheAfterGet(cache, config, TRUE) ELSE cache
        /\ start' = [files |-> files, fs |-> fs, volumes |-> volumes]
        /\ result' = [op |-> "mass_rename", error |-> p.error, renames |-> <<>>]
        /\ renames' = p.renames
        /\ idx' = 1
        /\ pc' = IF Raised(p.error) THEN "raised" ELSE "renaming"
        /\ volumes' = IF ~Raised(p.error) /\ p.renames # <<>>
                      THEN UpdateFolder(volumes, dirname(p.renames[1].after), volume_id)
                      ELSE volumes
        /\ UNCHANGED <<config, lastCall, lastError, issues, files, issues_files, fs>>

\* mass_rename(volume_id, issue_id) up to its loop: the plan, and the folder
\* of the volume
MassRename(volume_id, issue_id) ==
    LET p == preview_mass_rename(volume_id, issue_id)
    IN  /\ Ready
        /\ \A i \in 1..Len(p.renames) : Depth(p.renames[i].after) <= MaxDepth
        /\ scope' = <<volume_id, issue_id>>
        /\ cache' = IF ReadsSettings(p.error, volume_id, issue_id)
                    THEN CacheAfterGet(cache, config, TRUE) ELSE cache
        /\ start' = [files |-> files, fs |-> fs, volumes |-> volumes]
        /\ result' = [op |-> "mass_rename", error |-> p.error, renames |-> <<>>]
        /\ renames' = p.renames
        /\ idx' = 1
        /\ pc' = IF Raised(p.error) THEN "raised" ELSE "renaming"
        /\ volumes' = IF ~Raised(p.error) /\ issue_id = NoIssue /\ p.renames # <<>>
                      THEN UpdateFolder(volumes, dirname(p.renames[1].after), volume_id)
                      ELSE volumes
        /\ UNCHANGED <<config, lastCall, lastError, issues, files, issues_files, fs>>

\* one turn of the loop of mass_rename: the move, then the update of the row
RenameEntry ==
    /\ pc = "renaming"
    /\ idx <= Len(renames)
    /\ isfile(renames[idx].before)
    /\ fs' = rename_file(renames[idx].before, renames[idx].after)
    /\ files' = UpdateFilepath(files, renames[idx].after, renames[idx].before)
    /\ idx' = idx + 1
    /\ UNCHANGED <<settingsVars, volumes, issues, issues_files, pc, scope,
                   renames, start, result>>

\* rename_file raises: mass_rename ends there
RenameEntryFails ==
    /\ pc = "renaming"
    /\ idx <= Len(renames)
    /\ pc' = "failed"
    /\ result' = [result EXCEPT !.error = Raise("OSError", <<renames[idx].before>>)]
    /\ UNCHANGED <<settingsVars, libraryVars, scope, renames, idx, start>>

\* the loop is through: mass_rename returns
MassRenameReturns ==
    /\ pc = "renaming"
    /\ idx > Len(renames)
    /\ pc' = "done"
    /\ UNCHANGED <<settingsVars, libraryVars, scope, renames, idx, start, result>>

-----------------------------------------------------------------------------
(* The library the renaming runs on                                        *)

MaxFiles == 3
MaxIssues == 3

\* titles as the catalogue gives them: "Foo" and "A/B"
Titles == {Str("Foo"), <<"A", sep, "B">>}

IssueNumbers == <<"1", "2", "3", "4", "5">>

VolumeRow(title, folder) ==
    [comicvine_id |-> Str("4050"), title |-> title, year |-> Str("2020"),
     publisher |-> Str("Marvel"), volume_number |-> Str("1"),
     root_folder |-> 1, folder |-> folder]

IssueRow(i) ==
    [volume_id |-> 1, comicvine_id |-> Str("900"),
     issue_number |-> Str(IssueNumbers[i]), calculated_issue_number |-> i,
     title |-> Str("One"), date |-> Str("2020-01-01")]

\* the formats the library is run with, set by the user
LibraryFormats ==
    [volume_folder_naming |-> <<"{series_name}", sep, "Volume ", "{volume_number}">>,
     file_naming |-> <<"{series_name}", " Issue ", "{issue_number}">>,
     file_naming_tpb |-> <<"{series_name}", " TPB">>]

\* the folder and the file names these formats give the volume "Foo"
FooFolder == <<"/comics", sep, "Foo", sep, "Volume ", "1">>
FooIssue(n) == <<"Foo", " Issue ", n>>

\* where a file of the library can lie when the model starts
Pool ==
    {join(FooFolder, FooIssue("1") \o <<".cbz">>),
     join(FooFolder, FooIssue("1") \o <<" (1)", ".cbz">>),
     join(FooFolder, FooIssue("2") \o <<".cbz">>)}

\* where the file that was added last lies
Download == join(Str("/downloads"), FooIssue("1") \o <<".cbz">>)

\* the sets of issues a file can cover
Covers(T) == {c \in {{1}, {1, 2}} : c \subseteq 1..T}

ConfigRows == [api_key |-> Str("key0")] @@ default_settings
LibraryConfig == LibraryFormats @@ ConfigRows
EmptyCache == [k \in {} |-> <<>>]

VolumeIds == {1, 2}
IssueIds == {NoIssue, 1}

Init ==
    /\ config = LibraryConfig
    /\ cache = EmptyCache
    /\ lastCall = [op |-> "none", settings |-> <<>>]
    /\ lastError = NoError
    /\ \E title \in Titles : volumes = [v \in {1} |-> VolumeRow(title, FooFolder)]
    /\ \E T \in 1..MaxIssues :
          /\ issues = [i \in 1..T |-> IssueRow(i)]
          /\ \E cover \in [1..MaxFiles -> Covers(T)] :
                issues_files = {l \in (1..MaxFiles) \X (1..T) : l[2] \in cover[l[1]]}
    /\ files \in {t \in [1..MaxFiles -> Pool \cup {Download}] :
                    /\ t[MaxFiles] = Download
                    /\ \A f \in 1..(MaxFiles - 1) : t[f] \in Pool
                    /\ \A f, g \in 1..MaxFiles : f # g => t[f] # t[g]}
    /\ fs = [p \in Range(files) |-> CHOOSE f \in 1..MaxFiles : files[f] = p]
    /\ pc = "idle"
    /\ scope = <<1, NoIssue>>
    /\ renames = <<>>
    /\ idx = 0
    /\ start = NoStart
    /\ result = NoResult

Next ==
    \/ \E volume_id \in VolumeIds, issue_id \in IssueIds :
          PreviewMassRename(volume_id, issue_id)
    \/ \E volume_id \in VolumeIds, issue_id \in IssueIds :
          MassRename(volume_id, issue_id)
    \/ RenameEntry
    \/ RenameEntryFails
    \/ MassRenameReturns

Spec == Init /\ [][Next]_vars

-----------------------------------------------------------------------------
(* check_format on its own: every format of up to MaxFormatLen tokens       *)

MaxFormatLen == 3

\* what a format is made of: text, the separators, and replacement fields
FormatTokens == {"x", sep, BackSlash, "{series_name}", "{issue_title}", "{title}"}

Formats == UNION {[1..n -> FormatTokens] : n \in 0..MaxFormatLen}

\* a library for the specifications that do not rename
FixedLibrary ==
    /\ volumes = [v \in {1} |-> VolumeRow(Str("Foo"), FooFolder)]
    /\ issues = [i \in 1..1 |-> IssueRow(i)]
    /\ files = [f \in 1..1 |-> Download]
    /\ issues_files = {<<1, 1>>}
    /\ fs = [p \in {Download} |-> 1]
    /\ pc = "idle"
    /\ scope = <<1, NoIssue>>
    /\ renames = <<>>
    /\ idx = 0
    /\ start = NoStart
    /\ result = NoResult

InitFormat ==
    /\ config = ConfigRows
    /\ cache = EmptyCache
    /\ \E type \in NamingSettings, format \in Formats :
          lastCall = [op |-> "none", settings |-> <<<<type, format>>>>]
    /\ lastError = NoError
    /\ FixedLibrary

\* a call of check_format(format, type)
CheckFormat ==
    /\ lastCall.op = "none"
    /\ lastCall' = [lastCall EXCEPT !.op = "check_format"]
    /\ lastError' = check_format(lastCall.settings[1][2], lastCall.settings[1][1])
    /\ UNCHANGED <<config, cache, libraryVars, renameVars>>

NextFormat == CheckFormat

FormatSpec == InitFormat /\ [][NextFormat]_vars

-----------------------------------------------------------------------------
(* The settings on their own                                               *)

MaxSettings == 2

\* the keys and values a call of set_settings can hold
SettingChoices ==
    ({"volume_folder_naming"} \X {<<"{series_name}">>, <<"{title}">>})
    \cup ({"file_naming"} \X {<<"{issue_title}">>, <<"{series_name}", sep>>})
    \cup ({"file_naming_tpb"} \X {<<"{series_name}">>, <<"{issue_title}">>})
    \cup ({"log_level"} \X {Str("debug"), Str("warn")})
    \cup ({"api_key"} \X {Str("key1")})

\* the dicts of up to MaxSettings keys, as sequences of <<key, value>>
SettingsDicts ==
    {d \in UNION {[1..n -> SettingChoices] : n \in 0..MaxSettings} :
        \A i, j \in DOMAIN d : i # j => d[i][1] # d[j][1]}

\* what urandom(16).hex() can give
ApiKeys == {Str("key1")}

InitSettings ==
    /\ config = ConfigRows
    /\ cache = EmptyCache
    /\ lastCall = [op |-> "none", settings |-> <<>>]
    /\ lastError = NoError
    /\ FixedLibrary

NextSettings ==
    \/ \E use_cache \in BOOLEAN :
          get_settings(use_cache) /\ UNCHANGED <<libraryVars, renameVars>>
    \/ \E settings \in SettingsDicts :
          set_settings(settings) /\ UNCHANGED <<libraryVars, renameVars>>
    \/ \E key \in DOMAIN default_settings \cup {"api_key"} :
          reset_setting(key) /\ UNCHANGED <<libraryVars, renameVars>>
    \/ \E api_key \in ApiKeys :
          generate_api_key(api_key) /\ UNCHANGED <<libraryVars, renameVars>>

SettingsSpec == InitSettings /\ [][NextSettings]_vars

-----------------------------------------------------------------------------
(* The formatting data on its own: a volume and an issue with fields that   *)
(* can be empty or NULL, and calls for ids that have no row                *)

\* titles as the catalogue gives them, the empty title and the NULL title
ContextTitles ==
    {<<"The ", "Amazing Spider-Man">>, <<"A ", "History">>, Str("Batman"), <<>>, None}

\* the columns of volumes and of issues that _get_formatting_data reads
\* besides the title of the volume
VolumeFields == {"comicvine_id", "year", "publisher", "volume_number"}
IssueFields == {"comicvine_id", "issue_number", "title", "date"}
ContextFields == ({"volumes"} \X VolumeFields) \cup ({"issues"} \X IssueFields)

\* the columns that lack a value: none, any one, or all of them
MissingColumns == {{}, ContextFields} \cup {{c} : c \in ContextFields}

\* the row with the columns of table that are in missing set to blank
BlankRow(row, table, blank, missing) ==
    [k \in DOMAIN row |-> IF <<table, k>> \in missing THEN blank ELSE row[k]]

ContextVolumeIds == {1, 2}
ContextIssueIds == {NoIssue, 1, 2}

InitContext ==
    /\ config = LibraryConfig
    /\ cache = EmptyCache
    /\ lastCall = [op |-> "none", settings |-> <<>>]
    /\ lastError = NoError
    /\ \E title \in ContextTitles, blank \in {<<>>, None}, missing \in MissingColumns :
          /\ volumes = [v \in {1} |->
                BlankRow(VolumeRow(title, FooFolder), "volumes", blank, missing)]
          /\ issues = [i \in {1} |-> BlankRow(IssueRow(i), "issues", blank, missing)]
    /\ files = [f \in {1} |-> Download]
    /\ issues_files = {<<1, 1>>}
    /\ fs = [p \in {Download} |-> 1]
    /\ pc = "idle"
    /\ scope = <<1, NoIssue>>
    /\ renames = <<>>
    /\ idx = 0
    /\ start = NoStart
    /\ result = NoResult

\* a call of _get_formatting_data(volume_id, issue_id)
GetFormattingData(volume_id, issue_id) ==
    LET d == get_formatting_data(volume_id, issue_id)
    IN  /\ Ready
        /\ pc' = "idle"
        /\ scope' = <<volume_id, issue_id>>
        /\ result' = [op |-> "_get_formatting_data", error |-> d.error,
                      renames |-> <<>>, data |-> d.data]
        /\ renames' = <<>>
        /\ idx' = 0
        /\ start' = NoStart
        /\ UNCHANGED <<settingsVars, libraryVars>>

NextContext ==
    \/ \E volume_id \in ContextVolumeIds, issue_id \in ContextIssueIds :
          GetFormattingData(volume_id, issue_id)
    \/ \E volume_id \in ContextVolumeIds, issue_id \in ContextIssueIds :
          PreviewMassRename(volume_id, issue_id)
    \/ \E volume_id \in ContextVolumeIds, issue_id \in ContextIssueIds :
          MassRename(volume_id, issue_id)
    \/ RenameEntry
    \/ RenameEntryFails
    \/ MassRenameReturns

ContextSpec == InitContext /\ [][NextContext]_vars

-----------------------------------------------------------------------------
(* same_name_indexing on its own: a folder, a plan that grows, and the      *)
(* names asked for                                                        *)

MaxPlanned == 3

\* the base names the files of the folder can have
FolderNames ==
    {Str("Foo"), <<"Foo", " (1)">>, <<"Foo", " (2)">>, <<"Foo", " (2)", " Bar">>}

\* the files outside the folder
Downloads == {<<"/downloads", sep, "Foo", ".cbz">>, <<"/downloads", sep, "Bar", ".cbz">>}

\* the names asked for and the files they are asked for
SuggestedNames == {Str("Foo"), <<"Foo", " (1)">>}
CurrentNames == {join(FooFolder, <<"Foo", ".cbz">>)} \cup Downloads

InitIndexing ==
    /\ config = LibraryConfig
    /\ cache = EmptyCache
    /\ lastCall = [op |-> "none", settings |-> <<>>]
    /\ lastError = NoError
    /\ volumes = [v \in {1} |-> VolumeRow(Str("Foo"), FooFolder)]
    /\ issues = [i \in {1} |-> IssueRow(i)]
    /\ \E names \in SUBSET FolderNames :
          LET paths == {join(FooFolder, name \o <<".cbz">>) : name \in names}
                       \cup Downloads
              file == CHOOSE f \in [1..Cardinality(paths) -> paths] :
                          \A i, j \in 1..Cardinality(paths) : i # j => f[i] # f[j]
          IN  /\ files = file
              /\ fs = [p \in paths |-> CHOOSE i \in DOMAIN file : file[i] = p]
              /\ issues_files = {<<f, 1>> : f \in DOMAIN file}
    /\ pc = "idle"
    /\ scope = <<1, NoIssue>>
    /\ renames = <<>>
    /\ idx = 0
    /\ start = NoStart
    /\ result = NoResult

\* a call of same_name_indexing for the folder of the volume with the plan
\* so far, and the entry the caller appends for its answer
SameNameIndexing(suggested_name, current_name) ==
    LET name == same_name_indexing(suggested_name, current_name, FooFolder, renames)
    IN  /\ isfile(current_name)
        /\ Len(renames) < MaxPlanned
        /\ result' = [op |-> "same_name_indexing", error |-> NoError,
                      renames |-> renames, suggested_name |-> suggested_name,
                      current_name |-> current_name, name |-> name]
        /\ renames' = Append(renames,
                             [before |-> current_name,
                              after |-> join(FooFolder,
                                             name \o splitext(current_name)[2])])
        /\ UNCHANGED <<settingsVars, libraryVars, pc, scope, idx, start>>

NextIndexing ==
    \E suggested_name \in SuggestedNames, current_name \in CurrentNames :
        SameNameIndexing(suggested_name, current_name)

IndexingSpec == InitIndexing /\ [][NextIndexing]_vars

-----------------------------------------------------------------------------
(* Files of several issues: the calculated numbers of the issues of the    *)
(* volume in any order, with repeats                                       *)

\* the sets of at least two issues that a file can cover, of T issues
RangeCovers(T) == {c \in SUBSET (1..T) : Cardinality(c) >= 2}

InitRange ==
    /\ config = LibraryConfig
    /\ cache = EmptyCache
    /\ lastCall = [op |-> "none", settings |-> <<>>]
    /\ lastError = NoError
    /\ volumes = [v \in {1} |-> VolumeRow(Str("Foo"), FooFolder)]
    /\ \E T \in 2..MaxIssues :
          /\ \E number \in [1..T -> 1..MaxIssues] :
                issues = [i \in 1..T |->
                            [IssueRow(i) EXCEPT !.calculated_issue_number = number[i]]]
          /\ \E cover \in RangeCovers(T) : issues_files = {1} \X cover
    /\ files = [f \in {1} |-> Download]
    /\ fs = [p \in {Download} |-> 1]
    /\ pc = "idle"
    /\ scope = <<1, NoIssue>>
    /\ renames = <<>>
    /\ idx = 0
    /\ start = NoStart
    /\ result = NoResult

RangeSpec == InitRange /\ [][Next]_vars

-----------------------------------------------------------------------------
(* Properties                                                              *)

\* the plan a fresh preview_mass_rename of the last scope would return now
FreshPlan == preview_mass_rename(scope[1], scope[2])

\* the rows of files that held path when the running mass_rename began
RowsAt(path) == {f \in DOMAIN start.files : start.files[f] = path}

\* C1: a preview_mass_rename right after a mass_rename of the same volume_id
\* and issue_id that went through returns an empty plan.
C1_PreviewAfterRenameIsEmpty ==
    pc = "done" => ~Raised(FreshPlan.error) /\ FreshPlan.renames = <<>>

\* the entries of the plan the last preview_mass_rename returned
Planned == IF result.op = "preview_mass_rename" THEN result.renames ELSE <<>>

\* C2: no two entries of a plan of preview_mass_rename have the same 'after'
\* path, nor the same base name without the extension.
C2_PlanNamesDiffer ==
    \A i, j \in 1..Len(Planned) : i # j =>
        /\ Planned[i].after # Planned[j].after
        /\ splitext(basename(Planned[i].after))[1]
              # splitext(basename(Planned[j].after))[1]

\* C3: no entry of a plan of preview_mass_rename has as 'after' the path of
\* a file that is on disk when the plan is made, its own 'before' apart.
C3_PlanAvoidsFilesOnDisk ==
    \A i \in 1..Len(Planned) :
        isfile(Planned[i].after) => Planned[i].after = Planned[i].before

\* C4: when rename_file fails on entry idx, every entry before it is moved
\* and its row of files holds 'after'; entry idx and the later ones are not
\* moved and their rows hold 'before'.
C4_PartialFailureKeepsProgress ==
    pc = "failed" =>
        \A j \in 1..Len(renames) :
            IF j < idx
            THEN /\ isfile(renames[j].after)
                 /\ fs[renames[j].after] = start.fs[renames[j].before]
                 /\ \A f \in RowsAt(renames[j].before) : files[f] = renames[j].after
            ELSE /\ isfile(renames[j].before)
                 /\ fs[renames[j].before] = start.fs[renames[j].before]
                 /\ \A f \in RowsAt(renames[j].before) : files[f] = renames[j].before

\* C5: after a mass_rename that a failing move ended, the plan a second call
\* computes has no entry for a file the first call renamed.
C5_RetrySkipsRenamedFiles ==
    pc = "failed" =>
        \A j \in 1..(idx - 1) : \A f \in RowsAt(renames[j].before) :
            \A e \in 1..Len(FreshPlan.renames) :
                FreshPlan.renames[e].before # files[f]

\* C6: preview_mass_rename, whether it returns or raises, leaves the
\* filesystem, the paths of the rows of files and the folder of the volume
\* as they were.
C6_PreviewChangesNothing ==
    [][result'.op = "preview_mass_rename" =>
          /\ fs' = fs
          /\ files' = files
          /\ volumes' = volumes]_vars

\* C6: a preview returned a plan with an entry
C6_Witness ==
    /\ result.op = "preview_mass_rename"
    /\ result.renames # <<>>

\* the format and the type check_format was called with
CheckedFormat == lastCall.settings[1][2]
CheckedType == lastCall.settings[1][1]

\* C7: check_format raises InvalidSettingValue for file_naming and
\* file_naming_tpb whenever the format holds a forward or a back slash, and
\* for volume_folder_naming never because of a separator.
C7_SeparatorRejectedInFileFormats ==
    lastCall.op = "check_format" =>
        /\ (/\ CheckedType \in {"file_naming", "file_naming_tpb"}
            /\ \E i \in 1..Len(CheckedFormat) : CheckedFormat[i] \in {sep, BackSlash})
           => lastError.type = "InvalidSettingValue"
        /\ CheckedType = "volume_folder_naming"
           => lastError.args # <<Str("Path seperator found")>>

\* the keys the claim allows a type
PermittedKeys(type) ==
    {"series_name", "clean_series_name", "volume_number", "comicvine_id",
     "year", "publisher"}
    \cup IF type = "file_naming"
         THEN {"issue_comicvine_id", "issue_number", "issue_title",
               "issue_release_date"}
         ELSE {}

\* the keys a format refers to that its type does not allow
KeysOutside(format, type) ==
    {FieldName[format[i]] : i \in {n \in 1..Len(format) : IsField(format[n])}}
    \ PermittedKeys(type)

\* C8: for a format without a path separator, check_format raises if and
\* only if the format refers to a key outside the set of its type, and the
\* error names such a key.
C8_KeysOfTheTypeOnly ==
    (/\ lastCall.op = "check_format"
     /\ \A i \in 1..Len(CheckedFormat) : CheckedFormat[i] \notin {sep, BackSlash})
    => /\ Raised(lastError) <=> KeysOutside(CheckedFormat, CheckedType) # {}
       /\ Raised(lastError) =>
             \E k \in KeysOutside(CheckedFormat, CheckedType) :
                lastError = Raise("InvalidSettingValue", <<Str(Braced(k))>>)

\* C8: "{issue_title}" was rejected for volume_folder_naming
C8_Witness ==
    /\ lastCall = [op |-> "check_format",
                   settings |-> <<<<"volume_folder_naming", <<"{issue_title}">>>>>>]
    /\ lastError = Raise("InvalidSettingValue", <<Str("{issue_title}")>>)

\* the call of set_settings holds a naming format that check_format rejects
HoldsRejectedFormat(call) ==
    /\ call.op = "set_settings"
    /\ \E i \in 1..Len(call.settings) :
          /\ call.settings[i][1] \in NamingSettings
          /\ Raised(check_format(call.settings[i][2], call.settings[i][1]))

\* C9: a set_settings that holds a rejected naming format raises and
\* leaves every row of config and the cache as they were.
C9_RejectedFormatChangesNothing ==
    [][HoldsRejectedFormat(lastCall') =>
          /\ Raised(lastError')
          /\ config' = config
          /\ cache' = cache]_vars

\* C9: a call with a valid log_level first and a rejected format second
\* was made and raised, with the log_level still as before
C9_Witness ==
    /\ lastCall = [op |-> "set_settings",
                   settings |-> <<<<"log_level", Str("debug")>>,
                                  <<"file_naming", <<"{series_name}", sep>>>>>>]
    /\ Raised(lastError)
    /\ config.log_level = Str("info")

\* p ends with s
EndsWith(p, s) == Len(p) >= Len(s) /\ SubSeq(p, Len(p) - Len(s) + 1, Len(p)) = s

\* the name the claim gives a file of volume 1 under LibraryFormats
ClaimedName(f) ==
    LET covered == {i \in DOMAIN issues : <<f, i>> \in issues_files}
        n == Cardinality(covered)
        T == Cardinality(DOMAIN issues)
        lowest == CHOOSE i \in covered : \A k \in covered :
                      issues[i].calculated_issue_number
                         <= issues[k].calculated_issue_number
        highest == CHOOSE i \in covered : \A k \in covered :
                      issues[i].calculated_issue_number
                         >= issues[k].calculated_issue_number
    IN  IF n = 1
        THEN volumes[1].title \o <<" Issue ">> \o issues[lowest].issue_number
        ELSE IF n = T
        THEN volumes[1].title \o <<" TPB">>
        ELSE volumes[1].title \o <<" Issue ">> \o issues[lowest].issue_number
             \o <<"-">> \o issues[highest].issue_number

\* C10: every entry of a plan for volume 1 names its file by the number of
\* issues it covers: one issue, the issue name; all issues of the volume, the
\* TPB name; otherwise the range from the first to the last covered issue.
C10_NameByIssuesCovered ==
    (result.op = "preview_mass_rename" /\ scope[1] = 1) =>
        \A e \in 1..Len(result.renames) : \A f \in DOMAIN files :
            (/\ files[f] = result.renames[e].before
             /\ \A g \in DOMAIN files : files[g] = files[f] => g = f)
            => \E s \in {<<>>} \cup {<<Suffix[n]>> : n \in DOMAIN Suffix} :
                  EndsWith(result.renames[e].after,
                           ClaimedName(f) \o s \o splitext(files[f])[2])

\* C10: a plan holds an entry for a file of one issue and an entry for a
\* file of all the issues of the volume
C10_Witness ==
    /\ result.op = "preview_mass_rename"
    /\ scope = <<1, NoIssue>>
    /\ Cardinality(DOMAIN issues) = 2
    /\ \E e1, e2 \in 1..Len(result.renames) : \E f1, f2 \in DOMAIN files :
          /\ files[f1] = result.renames[e1].before
          /\ files[f2] = result.renames[e2].before
          /\ {i \in DOMAIN issues : <<f1, i>> \in issues_files} = {1}
          /\ {i \in DOMAIN issues : <<f2, i>> \in issues_files} = {1, 2}

\* the formatting data the last call of _get_formatting_data returned
FormattingData == result.data

\* C11: clean_series_name is the title with a leading "The " or "A " moved
\* to the end after a comma, and the title itself when it starts with
\* neither.
C11_CleanSeriesNameMovesArticle ==
    (result.op = "_get_formatting_data" /\ ~Raised(result.error)) =>
        LET title == volumes[scope[1]].title
        IN  /\ StartsWith(title, <<"The ">>)
               => FormattingData.clean_series_name = Tail(title) \o <<", The">>
            /\ StartsWith(title, <<"A ">>)
               => FormattingData.clean_series_name = Tail(title) \o <<", A">>
            /\ (/\ Truthy(title)
                /\ ~StartsWith(title, <<"The ">>)
                /\ ~StartsWith(title, <<"A ">>))
               => FormattingData.clean_series_name = title

\* the call named a volume, an issue, or a volume and an issue without a row
MissingRow ==
    \/ scope[1] \notin DOMAIN volumes
    \/ scope[2] # NoIssue /\ scope[2] \notin DOMAIN issues

\* C12: preview_mass_rename and mass_rename for a volume_id without a row,
\* or for an issue_id without a row, raise VolumeNotFound or IssueNotFound,
\* return no plan, move nothing and update no row.
C12_MissingRowRaisesNotFound ==
    (result.op \in {"preview_mass_rename", "mass_rename"} /\ MissingRow) =>
        /\ result.error.type \in {"VolumeNotFound", "IssueNotFound"}
        /\ result.renames = <<>>
        /\ result.op = "mass_rename" =>
              /\ pc = "raised"
              /\ fs = start.fs
              /\ files = start.files
              /\ volumes = start.volumes

\* the key of the formatting data that a column of volumes or issues fills
ContextKey ==
    [c \in ContextFields \cup {<<"volumes", "title">>} |->
        IF c[1] = "volumes"
        THEN IF c[2] = "title" THEN "series_name" ELSE c[2]
        ELSE IF c[2] = "comicvine_id" THEN "issue_comicvine_id"
        ELSE IF c[2] = "issue_number" THEN "issue_number"
        ELSE IF c[2] = "title" THEN "issue_title"
        ELSE "issue_release_date"]

\* the columns the call reads: those of the volume, and those of the issue
\* when an issue is given
ColumnsRead ==
    {c \in DOMAIN ContextKey : c[1] = "volumes" \/ scope[2] # NoIssue}

\* the value of column c in the row the call reads
ColumnValue(c) ==
    IF c[1] = "volumes" THEN volumes[scope[1]][c[2]] ELSE issues[scope[2]][c[2]]

\* C17: _get_formatting_data for a volume and an issue that have a row
\* never raises; every column that is empty or NULL gives "Unknown" and
\* every other column gives its value, and clean_series_name is "Unknown"
\* when the title is empty or NULL.
C17_UnknownForMissingData ==
    (result.op = "_get_formatting_data" /\ ~MissingRow) =>
        /\ ~Raised(result.error)
        /\ \A c \in ColumnsRead :
              FormattingData[ContextKey[c]] =
                 IF Truthy(ColumnValue(c)) THEN ColumnValue(c) ELSE Str("Unknown")
        /\ ~Truthy(volumes[scope[1]].title)
              => FormattingData.clean_series_name = Str("Unknown")

\* the taken names of the claim: the base names of the planned entries and,
\* the base name of the current file apart, of the entries of the folder,
\* that are suggested_name or suggested_name with " (N)"
TakenNames(suggested_name, current_name, folder, planned_names) ==
    LET held == {splitext(basename(planned_names[i].after))[1] :
                    i \in 1..Len(planned_names)}
                \cup {splitext(basename(p))[1] :
                        p \in {q \in DOMAIN fs :
                                 /\ dirname(q) = folder
                                 /\ splitext(basename(q))[1]
                                       # splitext(basename(current_name))[1]}}
    IN  {n \in held :
            \/ n = suggested_name
            \/ \E N \in DOMAIN Suffix : n = suggested_name \o <<Suffix[N]>>}

\* C13: same_name_indexing returns the suggested name when it is not taken,
\* and otherwise the suggested name with " (N)" for the least N >= 1 such
\* that this is not taken.
C13_LeastFreeIndex ==
    result.op = "same_name_indexing" =>
        LET S == result.suggested_name
            taken == TakenNames(S, result.current_name, FooFolder, result.renames)
        IN  IF S \notin taken THEN result.name = S
            ELSE \E N \in DOMAIN Suffix :
                    /\ result.name = S \o <<Suffix[N]>>
                    /\ result.name \notin taken
                    /\ \A M \in 1..(N - 1) : S \o <<Suffix[M]>> \in taken

\* C13: with Foo.cbz in the folder and in the plan, the next two calls for
\* "Foo" gave "Foo (1)" and "Foo (2)"
C13_Witness ==
    /\ result.op = "same_name_indexing"
    /\ join(FooFolder, <<"Foo", ".cbz">>) \in DOMAIN fs
    /\ Len(renames) = 3
    /\ renames[1].after = join(FooFolder, <<"Foo", ".cbz">>)
    /\ renames[2].after = join(FooFolder, <<"Foo", " (1)", ".cbz">>)
    /\ renames[3].after = join(FooFolder, <<"Foo", " (2)", ".cbz">>)
    /\ result.suggested_name = Str("Foo")
    /\ result.name = <<"Foo", " (2)">>

\* the folder a volume is to lie in: the root folder of the volume joined
\* with the name generate_volume_folder_name gives it
DestinationFolder(volume_id) ==
    join(root_folders[volumes[volume_id].root_folder],
         generate_volume_folder_name(volume_id).name)

\* C14: with issue_id None, the directory of the 'after' path of every entry
\* of a plan is the root folder of the volume joined with its folder name,
\* and once mass_rename has a plan with an entry the folder of the volume
\* is that folder.
C14_EntriesShareDestinationFolder ==
    /\ (result.op = "preview_mass_rename" /\ scope[2] = NoIssue) =>
          \A e \in 1..Len(result.renames) :
              dirname(result.renames[e].after) = DestinationFolder(scope[1])
    /\ (pc \in {"renaming", "done", "failed"} /\ scope[2] = NoIssue /\ renames # <<>>) =>
          volumes[scope[1]].folder = DestinationFolder(scope[1])

\* the folder the last preview planned into
PlanFolder ==
    IF scope[2] = NoIssue THEN DestinationFolder(scope[1])
    ELSE dirname(files[FileInfos(scope[1], scope[2])[1]])

\* the base name of a path without its extension
Stem(p) == splitext(basename(p))[1]

\* file f lies in the folder planned into under the name it is to have, no
\* other file of the folder has that name, and no entry planned before
\* the turn of f has it
KeepsItsName(f) ==
    LET g == SuggestedName(scope[1], f)
    IN  /\ isfile(files[f])
        /\ dirname(files[f]) = PlanFolder
        /\ ~Raised(g.error)
        /\ g.name = Stem(files[f])
        /\ \A q \in DOMAIN fs :
              (q # files[f] /\ dirname(q) = PlanFolder) => Stem(q) # g.name
        /\ \A e \in 1..Len(result.renames) :
              (\E h \in DOMAIN files : h < f /\ files[h] = result.renames[e].before)
              => Stem(result.renames[e].after) # g.name

\* C15: a file that lies in the destination folder under its suggested
\* name, which no other file and no planned entry holds, gets no entry in
\* the plan, whatever " (N)" siblings the folder has.
C15_FileDoesNotCollideWithItself ==
    (result.op = "preview_mass_rename" /\ ~Raised(result.error)) =>
        \A f \in Range(FileInfos(scope[1], scope[2])) :
            KeepsItsName(f) =>
                \A e \in 1..Len(result.renames) : result.renames[e].before # files[f]

\* C15: a plan was made with a file that keeps its name beside a sibling
\* with the same name and a " (N)"
C15_Witness ==
    /\ result.op = "preview_mass_rename"
    /\ ~Raised(result.error)
    /\ \E f \in Range(FileInfos(scope[1], scope[2])) :
          /\ KeepsItsName(f)
          /\ \E q \in DOMAIN fs, N \in DOMAIN Suffix :
                /\ dirname(q) = PlanFolder
                /\ Stem(q) = Stem(files[f]) \o <<Suffix[N]>>

\* the issues file f covers
Covered(f) == {i \in DOMAIN issues : <<f, i>> \in issues_files}

\* the path file f has once the last plan is carried out
PlannedPath(f) ==
    IF \E e \in 1..Len(result.renames) : result.renames[e].before = files[f]
    THEN result.renames[CHOOSE e \in 1..Len(result.renames) :
                            result.renames[e].before = files[f]].after
    ELSE files[f]

\* C16: a file of volume 1 that covers more than one issue, and not all,
\* is named with the range "<low>-<high>": low is the issue_number of an
\* issue of the volume with the least calculated number the file covers,
\* high of one with the greatest, whatever the order of the ids and however
\* many issues of the volume have these calculated numbers.
C16_RangeFromLowToHigh ==
    (/\ result.op = "preview_mass_rename"
     /\ scope[1] = 1
     /\ 1 \in Range(FileInfos(scope[1], scope[2]))
     /\ isfile(files[1])
     /\ Cardinality(Covered(1)) > 1
     /\ Cardinality(Covered(1)) < IssuesInVolume(1))
    => /\ ~Raised(result.error)
       /\ \E low, high \in DOMAIN issues :
             /\ \A i \in Covered(1) :
                   /\ issues[low].calculated_issue_number
                         <= issues[i].calculated_issue_number
                   /\ issues[high].calculated_issue_number
                         >= issues[i].calculated_issue_number
             /\ \E i, j \in Covered(1) :
                   /\ issues[low].calculated_issue_number
                         = issues[i].calculated_issue_number
                   /\ issues[high].calculated_issue_number
                         = issues[j].calculated_issue_number
             /\ Stem(PlannedPath(1)) =
                   volumes[1].title \o <<" Issue ">> \o issues[low].issue_number
                   \o <<"-">> \o issues[high].issue_number

\* every row of the set rows of table holds the path at which disk has the
\* file of that row, and no two rows of table hold the same path
RowsMatchDisk(table, disk, rows) ==
    /\ \A f \in rows : table[f] \in DOMAIN disk /\ disk[table[f]] = f
    /\ \A f, g \in DOMAIN table : f # g => table[f] # table[g]

\* C18: when mass_rename began with every row of files at the path of its
\* own file, then where it stops, at its end or at a failing move, every
\* row of its scope holds the path at which its file lies and no two rows
\* hold the same path.
C18_RowsFollowTheFiles ==
    (/\ pc \in {"done", "failed"}
     /\ RowsMatchDisk(start.files, start.fs, DOMAIN start.files))
    => RowsMatchDisk(files, fs, Range(FileInfos(scope[1], scope[2])))

\* C19: whatever calls of set_settings, reset_setting and generate_api_key
\* were made, a get_settings() that uses the cache returns for every key
\* of config the value the table holds; so a format read by the name
\* generation is the one written last.
C19_CachedSettingsAreCurrent ==
    /\ \A key \in DOMAIN config :
          CacheAfterGet(cache, config, TRUE)[key] = config[key]
    /\ \A key \in NamingSettings : Setting(key) = config[key]

\* C19: a set_settings wrote a file_naming other than the default into
\* the table while the cache was filled
C19_Witness ==
    /\ lastCall.op = "set_settings"
    /\ ~Raised(lastError)
    /\ config.file_naming = <<"{issue_title}">>
    /\ config.file_naming # default_settings.file_naming
    /\ DOMAIN cache # {}

\* a mass_rename is under way or has stopped
InMassRename == pc \in {"renaming", "done", "failed", "raised"}

\* C20: with issue_id None and a plan with an entry, the folder of the
\* volume holds the directory of the first 'after' path before the first
\* move, so also when the first move fails, with no file moved and no row
\* of files changed by then; with an empty plan, or with an issue_id,
\* mass_rename leaves the folder of the volume as it was.
C20_FolderWrittenBeforeFirstMove ==
    InMassRename =>
        IF scope[2] = NoIssue /\ renames # <<>>
        THEN /\ volumes[scope[1]].folder = dirname(renames[1].after)
             /\ (pc \in {"renaming", "failed"} /\ idx = 1)
                   => fs = start.fs /\ files = start.files
        ELSE volumes = start.volumes

\* C20: the first move of a plan for the whole volume failed and the
\* folder of the volume is no longer what it was
C20_Witness ==
    /\ pc = "failed"
    /\ idx = 1
    /\ scope[2] = NoIssue
    /\ renames # <<>>
    /\ volumes[scope[1]].folder # start.volumes[scope[1]].folder
    /\ volumes[scope[1]].folder = dirname(renames[1].after)
    /\ fs = start.fs
    /\ files = start.files

====
